---- MODULE Spec2Model ----
(***************************************************************************)
(* Model of the LFS pointer resolver action, src/index.ts lines 1-352.     *)
(*                                                                         *)
(* One run of main(): copy-forward of the previous build's derivatives,    *)
(* pointer parsing, then the batches of resolveAndProcess driven by        *)
(* async.eachOfSeries, each batch fanning out Lambda invocations through   *)
(* async.eachLimit.                                                        *)
(*                                                                         *)
(* Runtime semantics the model follows:                                    *)
(*  - resolveAndProcess and the eachLimit iteratee are written against the *)
(*    callback form of the async library (they call next(null)); the       *)
(*    promise they return is not observed by the library.  An exception    *)
(*    thrown inside them therefore rejects a promise nobody handles: the   *)
(*    callback `next` is never called with an error, and under the node16  *)
(*    runtime named by src/action.yml:5 the unhandled rejection ends the   *)
(*    process with exit code 1.                                            *)
(*  - an exception thrown while main() is awaiting inside its try block    *)
(*    (line 323-342) reaches core.setFailed.                               *)
(*                                                                         *)
(* Text (pointer bodies, content identifiers, URLs) is a sequence of       *)
(* one-character strings.  Paths and object keys are sequences of words    *)
(* and separators ("." and "/" are words of their own, and so is every     *)
(* "print" or "preview" inside a longer word), so that equal strings are   *)
(* equal sequences and the templates, split and replace of the source act  *)
(* on them as they do on the strings.                                      *)
(***************************************************************************)
EXTENDS Integers, Sequences, FiniteSets, TLC

(***************************************************************************)
(* Bounds of the model.                                                    *)
(***************************************************************************)
\* largest number of candidate images under SOURCE_DIR in a whole run
MaxFiles == 2
\* largest regeneration list of a run of the dispatch half
MaxAssets == 4
\* src/index.ts:264 sets 50; the model runs the same chunking with a small size
resolverChunkSize == 3
\* src/index.ts:137 sets 1000; the model runs the same limiter with a small limit
lambdaConcurrency == 2

(***************************************************************************)
(* Program constants.                                                      *)
(***************************************************************************)
\* axios-retry budget, src/index.ts:152
retries == 3
\* action.yml defaults of print_image_dpi / preview_image_dpi
PRINT_IMAGE_DPI == 300
PREVIEW_IMAGE_DPI == 72

\* every value of the model is built from strings and numbers that are never
\* compared with each other: null and undefined are one-word texts, NaN a record
null == <<"null">>
undefined == <<"undefined">>
\* null where a list of paths is expected
nullList == <<null>>
NaN == [nan |-> TRUE, n |-> 0]
Num(n) == [nan |-> FALSE, n |-> n]

\* inputs of the action: SOURCE_DIR has the default of src/action.yml:26
SOURCE_DIR == <<"static-assets">>
REPOSITORY == <<"repo">>
ASSET_VERSION == <<"current">>
ASSET_VERSION_BEFORE == <<"before">>

\* the names of the image files below SOURCE_DIR/images; the second one is
\* "blueprint"
ImageNames == << <<"f1">>, <<"blue", "print">>, <<"f3">>, <<"f4">>, <<"f5">>, <<"f6">> >>

\* line 91: the path glob gives for an image
ImagePath(name) == <<".", "/">> \o SOURCE_DIR \o <<"/", "images", "/">> \o name

\* the paths of the images, in the order glob lists them
FileNames == [k \in 1..Len(ImageNames) |-> ImagePath(ImageNames[k])]

(***************************************************************************)
(* lodash and String helpers                                               *)
(***************************************************************************)
Min(a, b) == IF a < b THEN a ELSE b
Elems(s) == {s[k] : k \in 1..Len(s)}

\* the j-th smallest number of the set P
Nth(P, j) == CHOOSE k \in P : Cardinality({m \in P : m <= k}) = j

\* the one element of a set of one element; the helpers below take their
\* array argument through it, so that the argument is computed once
Only(S) == CHOOSE x \in S : TRUE

\* the elements of array at the positions P, in order
Pick(array, P) ==
  Only({[j \in 1..Cardinality(Q) |-> a[Nth(Q, j)]] : a \in {array}, Q \in {P}})

\* a chunk that keeps the full pieces only
chunkFull(array, size) ==
  Only({[b \in 1..(Len(a) \div size) |->
           SubSeq(a, (b - 1) * size + 1, b * size)] : a \in {array}})

\* lodash chunk: consecutive pieces of `size` elements, the last one shorter
chunk(array, size) ==
  Only({[b \in 1..((Len(a) + size - 1) \div size) |->
           SubSeq(a, (b - 1) * size + 1, Min(b * size, Len(a)))] : a \in {array}})

\* lodash flatten of an array of pairs
flatten(array) ==
  Only({[k \in 1..(2 * Len(a)) |-> a[(k + 1) \div 2][2 - (k % 2)]] : a \in {array}})

\* lodash uniq: the first occurrence of every value, in order
uniq(array) ==
  Only({Pick(a, {k \in 1..Len(a) : \A m \in 1..(k - 1) : a[m] # a[k]}) : a \in {array}})

\* a union that keeps every occurrence
concat(a, b) == a \o (IF b = nullList THEN <<>> ELSE b)

\* lodash union(a, b): unique values in order of first occurrence; a null
\* argument is not array-like and is skipped
union(a, b) == uniq(a \o (IF b = nullList THEN <<>> ELSE b))

\* String.prototype.indexOf: zero-based position of the first occurrence, or -1
indexOf(s, t) ==
  LET hits == {k \in 1..(Len(s) - Len(t) + 1) : SubSeq(s, k, k + Len(t) - 1) = t}
  IN IF Len(t) = 0 THEN 0
     ELSE IF hits = {} THEN -1
     ELSE Nth(hits, 1) - 1

\* String.prototype.split on a one-character separator: the pieces between
\* consecutive separators
split(s, sep) ==
  LET P == {k \in 1..Len(s) : s[k] = sep}
      from(j) == IF j = 1 THEN 1 ELSE Nth(P, j - 1) + 1
      to(j) == IF j = Cardinality(P) + 1 THEN Len(s) ELSE Nth(P, j) - 1
  IN [j \in 1..(Cardinality(P) + 1) |-> SubSeq(s, from(j), to(j))]

Digits == <<"0", "1", "2", "3", "4", "5", "6", "7", "8", "9">>
IsDigit(c) == \E d \in 1..10 : Digits[d] = c
DigitVal(c) == (CHOOSE d \in 1..10 : Digits[d] = c) - 1

\* the number written by the leading run of decimal digits of s
parseDigits(s) ==
  LET n == Cardinality({k \in 1..Len(s) : \A m \in 1..k : IsDigit(s[m])})
      value[k \in 0..n] == IF k = 0 THEN 0 ELSE value[k - 1] * 10 + DigitVal(s[k])
  IN value[n]

\* parseInt: the leading run of decimal digits, NaN when there is none
\* (also for an undefined argument, which parseInt reads as "undefined")
parseInt(s) ==
  IF s = undefined \/ s = <<>> \/ ~IsDigit(Head(s)) THEN NaN
  ELSE Num(parseDigits(s))

\* array[k] with a zero-based index; undefined outside the array
At(array, k) == IF k + 1 \in 1..Len(array) THEN array[k + 1] ELSE undefined

\* String.prototype.split(sep)[1] for a separator, or a regular expression
\* of alternatives, given as the set `seps` of word sequences: the piece
\* between the first match and the next one; undefined without a match
splitSecond(s, seps) ==
  LET at(k, sep) == k + Len(sep) - 1 <= Len(s) /\ SubSeq(s, k, k + Len(sep) - 1) = sep
      rest(matches, after) ==
        Only({IF later = {} THEN SubSeq(s, after, Len(s))
              ELSE SubSeq(s, after, Nth(later, 1) - 1) :
                later \in {{k \in matches : k >= after}}})
      piece(matches) ==
        Only({rest(matches, first + Len(CHOOSE sep \in seps : at(first, sep))) :
                first \in {Nth(matches, 1)}})
  IN Only({IF matches = {} THEN undefined ELSE piece(matches) :
             matches \in {{k \in 1..Len(s) : \E sep \in seps : at(k, sep)}}})

\* String.prototype.replace(pattern, by) with a string pattern: the first
\* occurrence only
replace(s, pattern, by) ==
  LET k == indexOf(s, pattern)
  IN IF k = -1 THEN s
     ELSE SubSeq(s, 1, k) \o by \o SubSeq(s, k + Len(pattern) + 1, Len(s))

\* line 121, 270: path.split(`${SOURCE_DIR}/`)[1]
fileNameOf(path) == splitSecond(path, {SOURCE_DIR \o <<"/">>})

\* the fileName of every image a run can process
FileIds == {fileNameOf(FileNames[k]) : k \in 1..MaxAssets}

(***************************************************************************)
(* Inputs of a run                                                         *)
(***************************************************************************)
\* bodies of pointer files: "v\no:<oid>\ns <size>"
BodyA == <<"v", "\n", "o", ":", "a", "\n", "s", " ", "1">>
BodyB == <<"v", "\n", "o", ":", "b", "\n", "s", " ", "2">>
BodyAB == <<"v", "\n", "o", ":", "a", "b", "\n", "s", " ", "3">>
\* line 2 without ':'
BodyNoColon == <<"v", "\n", "o", "a", "\n", "s", " ", "1">>
\* line 3 without the blank before the size
BodyNoBlank == <<"v", "\n", "o", ":", "a", "\n", "s", "1">>
\* lines 2 and 3 absent
BodyShort == <<"v">>

\* the repository: the pointer file checked in at each path of FileNames
Repository == <<BodyA, BodyB, BodyAB, BodyA, BodyB, BodyAB>>
\* fs.readFile rejects for a path that is no file (ENOENT, EISDIR)
Unreadable == <<"ENOENT">>
IsFile(path) == \E k \in 1..Len(FileNames) : FileNames[k] = path
PointerFile(path) ==
  IF IsFile(path) THEN Repository[CHOOSE k \in 1..Len(FileNames) : FileNames[k] = path]
  ELSE Unreadable
DamagedBodies == {BodyNoColon, BodyShort}
PointerBodies == Elems(Repository) \cup DamagedBodies \cup {BodyNoBlank}

\* what fs.readFile gives for the paths: the repository's pointers, at most
\* one of them damaged; the pointer without a blank is the first image's
PointerContents(paths) ==
  LET healthy == [x \in paths |-> PointerFile(x)]
  IN {healthy} \cup {[healthy EXCEPT ![x] = b] : x \in {y \in paths : IsFile(y)},
                                                 b \in DamagedBodies}
               \cup {[healthy EXCEPT ![x] = BodyNoBlank] : x \in paths \cap {FileNames[1]}}

\* the file MODIFIED_IMAGES for the images numbered S: their paths from the
\* root of the repository, separated by blanks, and a newline at the end
RelativePath(name) == SOURCE_DIR \o <<"/", "images", "/">> \o name
ModifiedList(S) ==
  LET names == Pick(ImageNames, S)
      item(k) == (IF k = 1 THEN <<>> ELSE <<" ">>) \o RelativePath(names[k])
      text[k \in 0..Len(names)] == IF k = 0 THEN <<>> ELSE text[k - 1] \o item(k)
  IN text[Len(names)] \o <<"\n">>

\* the modified lists a run can find: any set of images, and the empty file
ModifiedLists == {ModifiedList(S) : S \in SUBSET (1..MaxAssets)} \cup {<<>>}

\* line 73-87 on the body of MODIFIED_IMAGES
getModifiedImages(body) ==
  LET files == split(body, " ")
  IN IF Len(files) = 1 /\ files[1] = <<>> THEN nullList
     ELSE [k \in 1..Len(files) |-> <<".", "/">> \o replace(files[k], <<"\n">>, <<>>)]


VARIABLES
  files,           \* getImages(): the candidate paths
  modifiedImages,  \* getModifiedImages(): null or the modified paths
  pc,              \* where main() stands
  batches,         \* copyAllFiles: chunks of fileSelection not yet shifted
  copying,         \* source keys of the current chunk whose s3.send is pending
  uncopiedFiles,   \* line 277
  filesToProcess,  \* line 319
  pointerData,     \* line 325: chunks of parsed assets
  i,               \* eachOfSeries: index of the batch in resolveAndProcess (from 1)
  LFS_HEADERS,     \* line 67: the Authorization header value
  retryCount,      \* axios-retry: retries already made for the pending POST
  sourceUrls,      \* line 176: the payloads of the current batch
  tasks,           \* eachLimit: per payload, where its iteratee stands
  inflight,        \* requests sent to an external service and not yet answered
  processed,       \* the counts printed by line 338: <<>> or <<n>>
  failure,         \* "none", "setFailed" (line 341) or the way the process died
  error,           \* the error that ended the run, <<>> when there is none
  authCalls,       \* stub counter: getAuth calls made for each batch
  locatorCalls,    \* stub counter: POSTs sent for each batch
  calls,           \* stub log: per file, the results of its Lambda invocations
  copies,          \* stub log: the CopyObjectCommands sent, in order
  world            \* the answers the services give to each request, when a run
                   \* is taken under answers fixed beforehand; Unfixed otherwise

vars == <<files, modifiedImages, pc, batches, copying, uncopiedFiles, filesToProcess,
          pointerData, i, LFS_HEADERS, retryCount, sourceUrls, tasks, inflight,
          processed, failure, error, authCalls, locatorCalls, calls, copies,
          world>>

mainVars == <<files, modifiedImages, world>>
copyVars == <<batches, copying, uncopiedFiles, copies>>
batchVars == <<i, LFS_HEADERS, retryCount, sourceUrls, tasks>>
stubVars == <<authCalls, locatorCalls, calls>>

MaxBatches == MaxAssets

\* no answer is fixed: every service may answer anything to any request
Unfixed == [files |-> <<>>, modified |-> <<>>, copy |-> <<>>, invoke |-> <<>>]

\* main() is entered: nothing was sent, logged or reported
Start ==
  /\ pc = "main"
  /\ batches = <<>>
  /\ copying = {}
  /\ uncopiedFiles = <<>>
  /\ filesToProcess = <<>>
  /\ pointerData = <<>>
  /\ i = 0
  /\ LFS_HEADERS = null
  /\ retryCount = 0
  /\ sourceUrls = <<>>
  /\ tasks = <<>>
  /\ inflight = {}
  /\ processed = <<>>
  /\ failure = "none"
  /\ error = <<>>
  /\ authCalls = [k \in 1..MaxBatches |-> 0]
  /\ locatorCalls = [k \in 1..MaxBatches |-> 0]
  /\ calls = [f \in FileIds |-> <<>>]
  /\ copies = <<>>

Init ==
  /\ \E n \in 0..MaxFiles : files = SubSeq(FileNames, 1, n)
  /\ \E body \in ModifiedLists : modifiedImages = getModifiedImages(body)
  /\ world = Unfixed
  /\ Start

(***************************************************************************)
(* How a run ends                                                          *)
(***************************************************************************)
\* node12 only warned about an unhandled rejection: the chain that threw
\* stops, and the process ends with exit code 0 once nothing is pending
WarnOnly(how, err) ==
  /\ pc' = "exit"
  /\ failure' = failure
  /\ error' = err
  /\ inflight' = {}

\* an error that is swallowed: the batch calls next(null) all the same and the
\* series goes on
CarryOn(how, err) ==
  /\ pc' = "series"
  /\ failure' = how
  /\ error' = err
  /\ inflight' = {}

\* a rejection that is recorded while the process lives on: what is in
\* flight is answered and the limiter goes on
CrashLater(how, err) ==
  /\ pc' = pc
  /\ failure' = how
  /\ error' = err
  /\ inflight' = inflight

\* a rejection nobody handles: node16 ends the process with exit code 1, and
\* whatever was in flight is abandoned
Crash(how, err) ==
  /\ pc' = "exit"
  /\ failure' = how
  /\ error' = err
  /\ inflight' = {}

\* core.setFailed(error) in the catch of main (line 340-342), then main returns
SetFailed(err) ==
  /\ pc' = "exit"
  /\ failure' = "setFailed"
  /\ error' = err
  /\ inflight' = {}

(***************************************************************************)
(* main, lines 256-319: inputs and copy-forward                            *)
(***************************************************************************)
\* line 272-273: `${REPOSITORY}/${ASSET_VERSION_BEFORE}/${mode}/${filename}`
PreviousKey(mode, filename) ==
  REPOSITORY \o <<"/">> \o ASSET_VERSION_BEFORE \o <<"/", mode, "/">> \o filename

\* line 269-275
fileSelection == flatten([k \in 1..Len(files) |->
                   <<PreviousKey("preview", fileNameOf(files[k])),
                     PreviousKey("print", fileNameOf(files[k]))>>])

\* line 287: sourceKey.replace(ASSET_VERSION_BEFORE, ASSET_VERSION)
destKey(sourceKey) == replace(sourceKey, ASSET_VERSION_BEFORE, ASSET_VERSION)

\* a request in flight: the service, the batch it was sent for, the file and
\* variant it is about, the Authorization header and the objects it carries
Request(op, batch, file, mode, auth, objects) ==
  [op |-> op, batch |-> batch, file |-> file, mode |-> mode, auth |-> auth,
   objects |-> objects]
CopyRequest(sourceKey) == Request("copy", 0, sourceKey, "", <<>>, <<>>)

\* line 290-294: the CopyObjectCommand of a source key
CopyCommand(sourceKey) == [CopySource |-> sourceKey, Key |-> destKey(sourceKey)]

\* line 260-283: read the inputs, log the counts, enter copyAllFiles.
\* modifiedImages.length (line 266) throws on null, outside any try.
MainStart ==
  /\ pc = "main"
  /\ IF modifiedImages = nullList
     THEN /\ Crash("unhandledRejection", <<"TypeError", "modifiedImages.length">>)
          /\ UNCHANGED <<copyVars, batchVars, stubVars, mainVars, filesToProcess,
                         pointerData, processed>>
     ELSE /\ pc' = "copy"
          /\ batches' = chunk(fileSelection, resolverChunkSize)
          /\ UNCHANGED <<copying, uncopiedFiles, copies, batchVars, stubVars, mainVars,
                         filesToProcess, pointerData, processed, failure, error, inflight>>

\* a list built from the key that was collected first only
firstUncopiedFile ==
  IF uncopiedFiles = <<>> THEN <<>>
  ELSE << <<".", "/", "static-assets">>
            \o splitSecond(uncopiedFiles[1], {<<"preview">>, <<"print">>}) >>

\* line 315: x.split(/preview|print/)[1] of every uncopied key, uniq, and
\* the prefix './static-assets'
deduplicatedUncopiedFiles ==
  Only({[k \in 1..Len(names) |-> <<".", "/", "static-assets">> \o names[k]] :
          names \in {uniq([k \in 1..Len(uncopiedFiles) |->
                             splitSecond(uncopiedFiles[k], {<<"preview">>, <<"print">>})])}})

\* a copy loop that does not await its chunks: the next chunk is sent, and
\* the loop is left, while copies are pending
CopyNextBatchUnawaited ==
  /\ pc = "copy"
  /\ IF batches # <<>>
     THEN /\ copying' = copying \cup Elems(Head(batches))
          /\ batches' = Tail(batches)
          /\ inflight' = inflight \cup {CopyRequest(k) : k \in Elems(Head(batches))}
          /\ copies' = copies \o [k \in 1..Len(Head(batches)) |->
                                    CopyCommand(Head(batches)[k])]
          /\ UNCHANGED <<pc, filesToProcess, uncopiedFiles>>
     ELSE /\ pc' = "pointers"
          /\ \E deduplicated \in {deduplicatedUncopiedFiles} :
               filesToProcess' = union(deduplicated, modifiedImages)
          /\ UNCHANGED <<batches, copying, inflight, uncopiedFiles, copies>>
  /\ UNCHANGED <<batchVars, stubVars, mainVars, pointerData, processed, failure, error>>

\* line 283-285: the previous chunk is settled; shift the next chunk and send
\* all its copies, or leave the loop and build filesToProcess (line 315-319)
CopyNextBatch ==
  /\ pc = "copy"
  /\ copying = {}
  /\ IF batches # <<>>
     THEN /\ copying' = Elems(Head(batches))
          /\ batches' = Tail(batches)
          /\ inflight' = {CopyRequest(k) : k \in Elems(Head(batches))}
          /\ copies' = copies \o [k \in 1..Len(Head(batches)) |->
                                    CopyCommand(Head(batches)[k])]
          /\ UNCHANGED <<pc, filesToProcess, uncopiedFiles>>
     ELSE /\ pc' = "pointers"
          /\ \E deduplicated \in {deduplicatedUncopiedFiles} :
               filesToProcess' = union(deduplicated, modifiedImages)
          /\ UNCHANGED <<batches, copying, inflight, uncopiedFiles, copies>>
  /\ UNCHANGED <<batchVars, stubVars, mainVars, pointerData, processed, failure, error>>

CopyOutcomes == {"ok", "NoSuchKey", "AccessDenied"}

\* line 296-307: one s3.send settles
CopyReturn(sourceKey, outcome) ==
  /\ pc = "copy"
  /\ sourceKey \in copying
  /\ IF outcome = "ok"
     THEN /\ copying' = copying \ {sourceKey}
          /\ inflight' = inflight \ {CopyRequest(sourceKey)}
          /\ UNCHANGED <<uncopiedFiles, pc, failure, error>>
     ELSE IF outcome = "NoSuchKey"
     THEN /\ copying' = copying \ {sourceKey}
          /\ inflight' = inflight \ {CopyRequest(sourceKey)}
          /\ uncopiedFiles' = Append(uncopiedFiles, destKey(sourceKey))
          /\ UNCHANGED <<pc, failure, error>>
     ELSE \* line 305: Promise.all rejects, copyAllFiles rejects, main rejects
          /\ Crash("unhandledRejection", <<"CopyObject", outcome>>)
          /\ UNCHANGED <<copying, uncopiedFiles>>
  /\ UNCHANGED <<batches, copies, batchVars, stubVars, mainVars, filesToProcess,
                 pointerData, processed>>

(***************************************************************************)
(* processPointer, lines 116-131                                           *)
(***************************************************************************)
\* line 117-120 on the body of a pointer file: file[1].split and
\* file[2].split throw a TypeError when the line is absent
parsePointer(body) ==
  LET file == split(body, "\n")
      oid == At(split(At(file, 1), ":"), 1)
      size == parseInt(At(split(At(file, 2), " "), 1))
  IN IF At(file, 1) = undefined \/ At(file, 2) = undefined
     THEN [threw |-> TRUE, opts |-> [oid |-> undefined, size |-> NaN]]
     ELSE [threw |-> FALSE, opts |-> [oid |-> oid, size |-> size]]

\* the parse of every body a run can read, computed once
Parsed == [body \in PointerBodies |-> parsePointer(body)]

\* line 116-131: the read of line 117 rejects for a path that is no file;
\* fileName is the path below SOURCE_DIR
processPointer(path, body) ==
  IF body = Unreadable
  THEN [threw |-> TRUE, fileName |-> path, opts |-> [oid |-> undefined, size |-> NaN]]
  ELSE [threw |-> Parsed[body].threw, fileName |-> fileNameOf(path),
        opts |-> Parsed[body].opts]

\* line 323-325: parse every pointer of filesToProcess and chunk the result;
\* a rejected processPointer is caught by the catch of line 340.
\* files, modifiedImages and uncopiedFiles are not read after line 319, and
\* no copy is sent after it: from here on the model holds them and the copy
\* log as <<>> in a run that goes on, so that runs
\* which differ only in how they came to the same filesToProcess are the
\* same state.
ProcessPointersOf(body) ==
  /\ pc = "pointers"
  /\ \E res \in {[k \in 1..Len(filesToProcess) |->
                      processPointer(filesToProcess[k], body[filesToProcess[k]])]} :
       LET bad == {k \in 1..Len(res) : res[k].threw}
       IN IF bad # {}
          THEN /\ SetFailed(<<"processPointer">> \o filesToProcess[CHOOSE k \in bad : TRUE])
               /\ UNCHANGED <<pointerData, i, files, modifiedImages, uncopiedFiles, copies>>
          ELSE /\ pointerData' = chunk(res, resolverChunkSize)
               /\ i' = 0
               /\ pc' = "series"
               /\ files' = <<>>
               /\ modifiedImages' = <<>>
               /\ uncopiedFiles' = <<>>
               /\ copies' = <<>>
               /\ UNCHANGED <<failure, error, inflight>>
  /\ UNCHANGED <<batches, copying, stubVars, filesToProcess, LFS_HEADERS, retryCount,
                 sourceUrls, tasks, processed>>

\* the pointer files are read as they are on disk, at most one of them damaged
ProcessPointers ==
  /\ \E body \in PointerContents(Elems(filesToProcess)) : ProcessPointersOf(body)
  /\ UNCHANGED world

(***************************************************************************)
(* async.eachOfSeries(pointerData, resolveAndProcess, ...), lines 327-338  *)
(***************************************************************************)
Inc(counter, k) == [counter EXCEPT ![k] = @ + 1]

\* line 144: the ssh command of getAuth, run for batch k
AuthRequest(k) == Request("auth", k, <<>>, "", <<>>, <<>>)

\* a series that stops after its first batch
SeriesDoneEarly == i >= 1

\* the series has handed every batch to resolveAndProcess and each called next(null)
SeriesDone == i = Len(pointerData)

\* the library takes the next batch, or calls the final callback: resolve(),
\* and main prints the summary (line 338).  resolveAndProcess runs up to its
\* first await, the call of getAuth (line 144).
EachOfSeriesNext ==
  /\ pc = "series"
  /\ IF SeriesDone
     THEN /\ processed' = Append(processed, Len(filesToProcess))
          /\ pc' = "exit"
          /\ UNCHANGED <<i, inflight, authCalls>>
     ELSE /\ i' = i + 1
          /\ pc' = "auth"
          /\ inflight' = inflight \cup {AuthRequest(i + 1)}
          /\ authCalls' = Inc(authCalls, i + 1)
          /\ UNCHANGED processed
  /\ UNCHANGED <<mainVars, copyVars, filesToProcess, pointerData, LFS_HEADERS, retryCount,
                 sourceUrls, tasks, failure, error, locatorCalls, calls>>

(***************************************************************************)
(* resolveAndProcess, lines 134-254                                        *)
(***************************************************************************)
assets == pointerData[i]

\* what the ssh command gives: a JSON body with a token, nothing on stdout and
\* a message on stderr, or a stdout that JSON.parse rejects
AuthOutcomes == {"token", "empty", "garbage"}

Token(k) == <<"token", ToString(k)>>
Stderr == <<"Permission denied">>

\* a credential source that keeps the first token it fetched
getAuthCached(outcome, k) == IF outcome = "token" THEN Token(1) ELSE Stderr

\* line 105: stdout ? JSON.parse(stdout).header.Authorization : stderr
getAuth(outcome, k) == IF outcome = "token" THEN Token(k) ELSE Stderr

\* line 147
NoAuthToken(authorization) == authorization = null

\* line 138-139, 159-164: the body lists the opts of the assets in batch
\* order, the headers are LFS_HEADERS
PostRequest(token) ==
  Request("post", i, <<>>, "", token, [k \in 1..Len(assets) |-> assets[k].opts])

\* line 144-159: the exec callback resolves the token, the header is set and
\* checked, and the POST is sent
GetAuthReturn(outcome) ==
  /\ pc = "auth"
  /\ IF outcome = "garbage"
     THEN \* JSON.parse throws inside the exec callback
          /\ Crash("uncaughtException", <<"SyntaxError", "JSON.parse">>)
          /\ UNCHANGED <<LFS_HEADERS, retryCount, locatorCalls>>
     ELSE LET token == getAuth(outcome, i)
          IN /\ LFS_HEADERS' = token
             /\ IF NoAuthToken(token)
                THEN /\ Crash("unhandledRejection", <<"No auth token present">>)
                     /\ UNCHANGED <<retryCount, locatorCalls>>
                ELSE /\ pc' = "post"
                     /\ retryCount' = 0
                     /\ inflight' = (inflight \ {AuthRequest(i)}) \cup {PostRequest(token)}
                     /\ locatorCalls' = Inc(locatorCalls, i)
                     /\ UNCHANGED <<failure, error>>
  /\ UNCHANGED <<mainVars, copyVars, filesToProcess, pointerData, i, sourceUrls, tasks,
                 processed, authCalls, calls>>

\* the download URL of a content identifier
Href(oid) == <<"u">> \o oid
Oids == {<<"a">>, <<"b">>, <<"a", "b">>}
Hrefs == {Href(o) : o \in Oids}

\* bodies the locator may answer: the hrefs of its objects, one fewer or one
\* more than requested included
Responses(n) == UNION {[1..m -> Hrefs] : m \in {k \in (n - 1)..(n + 1) : k >= 0}}

\* a retry budget that allows one retry more
shouldRetryOnceMore(count) == count <= retries

\* axios-retry, line 151-157: a network error is retried while the count is
\* below `retries`
shouldRetry(count) == count < retries

\* a stitch that checks nothing
NeverMismatch(url, asset) == FALSE

\* line 177
Mismatch(url, asset) == indexOf(url, asset.opts.oid) = -1

\* line 110-112
createKey(mode, fileName) ==
  REPOSITORY \o <<"/">> \o ASSET_VERSION \o <<"/", mode, "/">> \o fileName

\* payloads whose destinations are in the other order
InvocationOptionsSwapped(url, asset) ==
  [source |-> [url |-> url],
   destinations |-> <<[key |-> createKey("preview", asset.fileName),
                       scale |-> <<PREVIEW_IMAGE_DPI, PRINT_IMAGE_DPI>>],
                      [key |-> createKey("print", asset.fileName), scale |-> <<1, 1>>]>>]

\* line 181-200
InvocationOptions(url, asset) ==
  [source |-> [url |-> url],
   destinations |-> <<[key |-> createKey("print", asset.fileName), scale |-> <<1, 1>>],
                      [key |-> createKey("preview", asset.fileName),
                       scale |-> <<PREVIEW_IMAGE_DPI, PRINT_IMAGE_DPI>>]>>]

\* zipWith (line 176) walks the longer of the two arrays; a missing url or a
\* missing asset makes the iteratee throw a TypeError, a mismatch an Error
\* a stitch that walks the shorter of the two arrays
ZipLengthShorter(response) == Min(Len(response), Len(assets))

ZipLength(response) == IF Len(response) > Len(assets) THEN Len(response) ELSE Len(assets)
\* a stitch that checks the first position only
ZipThrowsFirstOnly(response, k) ==
  /\ k = 1
  /\ (k > Len(response) \/ k > Len(assets) \/ Mismatch(response[k], assets[k]))

ZipThrows(response, k) ==
  \/ k > Len(response)
  \/ k > Len(assets)
  \/ Mismatch(response[k], assets[k])
ZipError(response, k) ==
  IF k > Len(response) \/ k > Len(assets) THEN <<"TypeError", "zipWith">>
  ELSE <<"Mismatch">> \o assets[k].fileName

\* eachLimit: the iteratee of payload k is "pending" (not started), awaiting
\* its "first" or "second" lambda.send, or "done" (it called next(null))
Running(ts) == Cardinality({k \in 1..Len(ts) : ts[k].st \in {"first", "second"}})

\* a limiter without a limit: every pending iteratee is started
ReplenishAll(ts) ==
  [k \in 1..Len(ts) |-> IF ts[k].st = "pending" THEN [ts[k] EXCEPT !.st = "first"] ELSE ts[k]]

\* replenish: start pending iteratees in order while the limit allows
Replenish(ts) ==
  LET pending == {k \in 1..Len(ts) : ts[k].st = "pending"}
      free == lambdaConcurrency - Running(ts)
      start == {k \in pending : Cardinality({m \in pending : m < k}) < free}
  IN [k \in 1..Len(ts) |-> IF k \in start THEN [ts[k] EXCEPT !.st = "first"] ELSE ts[k]]

FileOf(k) == assets[k].fileName
InvokeRequest(k) == Request("invoke", i, FileOf(k), "", <<>>, <<>>)

\* the iteratees started by a step: their first lambda.send goes out
Started(old, new) == {k \in 1..Len(new) : new[k].st = "first" /\ old[k].st = "pending"}
Sent(log, S) == [f \in DOMAIN log |->
                   IF \E k \in S : FileOf(k) = f THEN Append(log[f], "sent") ELSE log[f]]

PostOutcomes == {"networkError", "httpError", "badBody", "ok"}

\* line 159-248: the POST settles; on a body it is zipped onto the assets and
\* eachLimit starts the first iteratees
PostReturn(outcome, response) ==
  /\ pc = "post"
  /\ IF outcome = "networkError" /\ shouldRetry(retryCount)
     THEN /\ retryCount' = retryCount + 1
          /\ locatorCalls' = Inc(locatorCalls, i)
          /\ UNCHANGED <<pc, inflight, failure, error, sourceUrls, tasks, calls>>
     ELSE IF outcome # "ok"
     THEN /\ Crash("unhandledRejection", <<"axios", outcome>>)
          /\ UNCHANGED <<retryCount, locatorCalls, sourceUrls, tasks, calls>>
     ELSE LET bad == {k \in 1..ZipLength(response) : ZipThrows(response, k)}
          IN IF bad # {}
             THEN /\ Crash("unhandledRejection",
                           ZipError(response, CHOOSE k \in bad : \A m \in bad : k <= m))
                  /\ UNCHANGED <<retryCount, locatorCalls, sourceUrls, tasks, calls>>
             ELSE LET payloads == [k \in 1..Len(assets) |->
                                     InvocationOptions(response[k], assets[k])]
                      idle == [k \in 1..Len(assets) |-> [st |-> "pending", lambdaAttempts |-> 0]]
                      ts == Replenish(idle)
                  IN /\ sourceUrls' = payloads
                     /\ tasks' = ts
                     /\ pc' = "dispatch"
                     /\ inflight' = (inflight \ {PostRequest(LFS_HEADERS)})
                                      \cup {InvokeRequest(k) : k \in Started(idle, ts)}
                     /\ calls' = Sent(calls, Started(idle, ts))
                     /\ UNCHANGED <<retryCount, locatorCalls, failure, error>>
  /\ UNCHANGED <<mainVars, copyVars, filesToProcess, pointerData, i, LFS_HEADERS,
                 processed, authCalls>>

InvokeOutcomes == {"ok", "FunctionError", "rejected"}

\* an iteratee that gives no second attempt
NeverRetry(result, lambdaAttempts) == FALSE

\* a retry after any first result
RetryAlways(result, lambdaAttempts) == lambdaAttempts < 1

\* line 228
RetryInvoke(result, lambdaAttempts) == result = "FunctionError" /\ lambdaAttempts < 1

\* an iteratee that does not look at FunctionError
ProcessingIgnored(result) == FALSE

\* line 233
ProcessingFailed(result) == result = "FunctionError"

\* the result of the pending invocation of file f is recorded
Answered(log, f, result) == [log EXCEPT ![f][Len(log[f])] = result]

\* an eachLimit that ends with its first finished iteratee
SomeDone(ts) == \E k \in 1..Len(ts) : ts[k].st = "done"

\* eachLimit is over: every iteratee was started and called next(null)
AllDone(ts) == \A k \in 1..Len(ts) : ts[k].st = "done"

\* line 209-250: one lambda.send settles
LambdaReturn(k, result) ==
  /\ pc = "dispatch"
  /\ k \in 1..Len(tasks)
  /\ tasks[k].st \in {"first", "second"}
  /\ LET log == Answered(calls, FileOf(k), result)
         attempts == tasks[k].lambdaAttempts
     IN IF result = "rejected"
        THEN \* lambda.send rejects: the iteratee rejects
             /\ Crash("unhandledRejection", <<"lambda.send">> \o FileOf(k))
             /\ calls' = log
             /\ UNCHANGED tasks
        ELSE IF tasks[k].st = "first" /\ RetryInvoke(result, attempts)
        THEN \* line 229: the second lambda.send; lambdaAttempts++ follows its answer
             /\ tasks' = [tasks EXCEPT ![k] = [st |-> "second", lambdaAttempts |-> attempts + 1]]
             /\ calls' = [log EXCEPT ![FileOf(k)] = Append(@, "sent")]
             /\ UNCHANGED <<pc, inflight, failure, error>>
        ELSE IF ProcessingFailed(result)
        THEN \* line 234
             /\ Crash("unhandledRejection", <<"FunctionError">> \o FileOf(k))
             /\ calls' = log
             /\ UNCHANGED tasks
        ELSE \* line 239: next(null); the library replenishes or ends the batch,
             \* and resolveAndProcess calls next(null) (line 250)
             LET finished == [tasks EXCEPT ![k].st = "done"]
                 ts == Replenish(finished)
             IN /\ tasks' = ts
                /\ calls' = Sent(log, Started(finished, ts))
                /\ inflight' = (inflight \ {InvokeRequest(k)})
                                 \cup {InvokeRequest(m) : m \in Started(finished, ts)}
                /\ pc' = IF AllDone(ts) THEN "series" ELSE "dispatch"
                /\ UNCHANGED <<failure, error>>
  /\ UNCHANGED <<mainVars, copyVars, filesToProcess, pointerData, i, LFS_HEADERS, retryCount,
                 sourceUrls, processed, authCalls, locatorCalls>>

(***************************************************************************)
(* The run                                                                 *)
(***************************************************************************)
Next ==
  \/ MainStart
  \/ CopyNextBatch
  \/ \E key \in copying, outcome \in CopyOutcomes : CopyReturn(key, outcome)
  \/ ProcessPointers
  \/ EachOfSeriesNext
  \/ \E outcome \in AuthOutcomes : GetAuthReturn(outcome)
  \/ \E outcome \in PostOutcomes :
       \E response \in (IF outcome = "ok" /\ pc = "post" THEN Responses(Len(assets)) ELSE {<<>>}) :
         PostReturn(outcome, response)
  \/ \E k \in 1..resolverChunkSize, result \in InvokeOutcomes : LambdaReturn(k, result)

Spec == Init /\ [][Next]_vars

(***************************************************************************)
(* The dispatch half of the run on its own: main has reached line 323 with *)
(* a regeneration list of up to MaxAssets files: the state of a run with   *)
(* no candidate image and these files modified.  The list is never empty   *)
(* there, since an empty modified list ends the run at line 266.           *)
(***************************************************************************)
DispatchInit ==
  /\ \E n \in 1..MaxAssets : filesToProcess = SubSeq(FileNames, 1, n)
  /\ modifiedImages = filesToProcess
  /\ files = <<>>
  /\ pc = "pointers"
  /\ batches = <<>>
  /\ copying = {}
  /\ uncopiedFiles = <<>>
  /\ pointerData = <<>>
  /\ i = 0
  /\ LFS_HEADERS = null
  /\ retryCount = 0
  /\ sourceUrls = <<>>
  /\ tasks = <<>>
  /\ inflight = {}
  /\ processed = <<>>
  /\ failure = "none"
  /\ error = <<>>
  /\ authCalls = [k \in 1..MaxBatches |-> 0]
  /\ locatorCalls = [k \in 1..MaxBatches |-> 0]
  /\ calls = [f \in FileIds |-> <<>>]
  /\ copies = <<>>
  /\ world = Unfixed

DispatchNext ==
  \/ ProcessPointers
  \/ EachOfSeriesNext
  \/ \E outcome \in AuthOutcomes : GetAuthReturn(outcome)
  \/ \E outcome \in PostOutcomes :
       \E response \in (IF outcome = "ok" /\ pc = "post" THEN Responses(Len(assets)) ELSE {<<>>}) :
         PostReturn(outcome, response)
  \/ \E k \in 1..resolverChunkSize, result \in InvokeOutcomes : LambdaReturn(k, result)

DispatchSpec == DispatchInit /\ [][DispatchNext]_vars

\* every request in flight is answered and the library's continuations run
DispatchFairSpec == DispatchSpec /\ WF_vars(DispatchNext)

\* Liveness is checked on the runs whose modified list is empty, names the
\* first file only, or names every file.  Every request in flight is
\* answered and main's continuations run: weak fairness of Next.
FairInit ==
  /\ Init
  /\ modifiedImages \in {nullList, SubSeq(FileNames, 1, 1), SubSeq(FileNames, 1, MaxAssets)}
FairSpec == FairInit /\ [][Next]_vars /\ WF_vars(Next)

(***************************************************************************)
(* The run under answers fixed beforehand: each copy request and each      *)
(* invocation of an asset gets the answer `world` holds for it, whenever   *)
(* it is answered; the pointer files are healthy, the credential source    *)
(* gives a token and the locator the URL of each object.  Only the order   *)
(* in which the pending requests are answered is left open.  The answers   *)
(* to the copies are fixed as the run starts, the answers to the           *)
(* invocations as the pointers are read, before anything is invoked.       *)
(***************************************************************************)
\* the fileNames of the regeneration list of line 319
RegenerationSet == {fileNameOf(filesToProcess[k]) : k \in 1..Len(filesToProcess)}
\* at most MaxFaults copies and MaxFaults assets get another answer than success
MaxFaults == 2
\* the answers to the first and the second invocation of an asset
InvokeAnswers == {<<"ok", "ok">>, <<"FunctionError", "ok">>,
                  <<"FunctionError", "FunctionError">>, <<"rejected", "ok">>}
\* the answers to the requests S with at most MaxFaults answers other than good
Answers(S, outcomes, good) ==
  {a \in [S -> outcomes] : Cardinality({x \in S : a[x] # good}) <= MaxFaults}

FixedInit ==
  /\ \E n \in 0..MaxFiles : files = SubSeq(FileNames, 1, n)
  /\ \E S \in {{}, {1}, {MaxAssets}, 1..MaxAssets} :
       modifiedImages = getModifiedImages(IF S = {} THEN <<>> ELSE ModifiedList(S))
  /\ \E copy \in Answers(Elems(fileSelection), CopyOutcomes, "ok") :
       world = [files |-> files, modified |-> modifiedImages,
                copy |-> copy, invoke |-> <<>>]
  /\ Start

FixedNext ==
  \/ MainStart
  \/ CopyNextBatch
  \/ \E key \in copying : CopyReturn(key, world.copy[key])
  \/ /\ pc = "pointers"
     /\ \E invoke \in Answers(RegenerationSet, InvokeAnswers, <<"ok", "ok">>) :
       /\ ProcessPointersOf([x \in Elems(filesToProcess) |-> PointerFile(x)])
       /\ world' = [world EXCEPT !.invoke = invoke]
  \/ EachOfSeriesNext
  \/ GetAuthReturn("token")
  \/ pc = "post" /\ PostReturn("ok", [k \in 1..Len(assets) |-> Href(assets[k].opts.oid)])
  \/ \E k \in 1..resolverChunkSize :
       /\ pc = "dispatch"
       /\ k <= Len(tasks)
       /\ LambdaReturn(k, world.invoke[FileOf(k)][IF tasks[k].st = "second" THEN 2 ELSE 1])

FixedSpec == FixedInit /\ [][FixedNext]_vars

(***************************************************************************)
(* What the run has reported                                               *)
(***************************************************************************)
\* the summary of line 338 was printed
ReportedSuccess == processed # <<>>
\* the action is marked failed: core.setFailed was called, or the process
\* was ended with exit code 1 by an exception nobody handled
ReportedFailure == failure \in {"setFailed", "unhandledRejection", "uncaughtException"}
Terminated == pc = "exit"
ExactlyOneReport == ReportedSuccess # ReportedFailure

(***************************************************************************)
(* C1: whatever the credential source, the object store, the locator and   *)
(* the compute unit answer, the run eventually terminates, and a           *)
(* terminated run has reported exactly one of success (the summary) and    *)
(* failure; nothing is reported twice or not at all.                       *)
(***************************************************************************)
C1_ReportsOnce ==
  /\ <>Terminated
  /\ [](Terminated => ExactlyOneReport)
  /\ [](~Terminated => ~ReportedSuccess /\ ~ReportedFailure)

\* a run that went through copy-forward and a retried invocation ended with the summary
C1_Witness ==
  /\ Terminated
  /\ ReportedSuccess
  /\ batches = <<>> /\ Len(filesToProcess) >= 2
  /\ \E f \in FileIds : calls[f] = <<"FunctionError", "ok">>

(***************************************************************************)
(* Vocabulary of the dispatch claims                                       *)
(***************************************************************************)
Last(log) == log[Len(log)]
\* the files of batch b
BatchFiles(b) == {pointerData[b][k].fileName : k \in 1..Len(pointerData[b])}
\* the Lambda invocations that were sent and have not returned
Invoking == {r \in inflight : r.op = "invoke"}
\* an error ended the work of the current batch
BatchFailed == error # <<>> /\ i >= 1

(***************************************************************************)
(* C2: an asset whose first invocation returns without a function-level    *)
(* error is invoked exactly once; an asset whose first invocation returns  *)
(* a function-level error is invoked exactly twice; no asset is invoked    *)
(* more than twice in a run.                                               *)
(***************************************************************************)
C2_InvokedOnceOrTwice ==
  \A f \in FileIds :
    /\ Len(calls[f]) <= 2
    /\ (calls[f] # <<>> /\ calls[f][1] = "ok") => Len(calls[f]) = 1
    /\ (calls[f] # <<>> /\ calls[f][1] = "FunctionError") => Len(calls[f]) = 2

\* one asset went through on its first invocation, another on its retry
C2_Witness ==
  \E f, g \in FileIds :
    /\ calls[f] = <<"ok">>
    /\ calls[g] = <<"FunctionError", "ok">>

(***************************************************************************)
(* C3: when the first invocation and the retry of an asset both return a   *)
(* function-level error, the asset's error ends its batch (the batch does  *)
(* not complete) and the run has terminated reporting failure, not         *)
(* success.                                                                *)
(***************************************************************************)
C3_TwoErrorsFailTheRun ==
  \A f \in FileIds :
    calls[f] = <<"FunctionError", "FunctionError">> =>
      /\ Terminated
      /\ ReportedFailure
      /\ ~ReportedSuccess
      /\ error = <<"FunctionError">> \o f
      /\ f \in BatchFiles(i)
      /\ ~AllDone(tasks)

\* the second batch of a run died on two function-level errors
C3_Witness ==
  /\ i = 2
  /\ \E f \in FileIds : calls[f] = <<"FunctionError", "FunctionError">>
  /\ ReportedFailure

(***************************************************************************)
(* C4: when the credential source prints nothing on stdout for a batch,    *)
(* the run has failed with the no-credential error and the locator is not  *)
(* called for that batch or any later one.                                 *)
(***************************************************************************)
C4_EmptyCredentialStopsRun ==
  LFS_HEADERS = Stderr =>
    /\ Terminated
    /\ ReportedFailure
    /\ error = <<"No auth token present">>
    /\ \A b \in i..MaxBatches : locatorCalls[b] = 0

\* the first fetch printed nothing on stdout, and the POST went out with the
\* text of stderr as its Authorization header
C4_Witness ==
  /\ i = 1
  /\ LFS_HEADERS = Stderr
  /\ locatorCalls[1] >= 1
  /\ \E r \in inflight : r.op = "post" /\ r.auth = Stderr

(***************************************************************************)
(* C5: a run that reports success has not reported failure, has handed     *)
(* every batch to the dispatch (credential fetch and locator call made for *)
(* each), and every asset of the regeneration list is in a batch and has   *)
(* an invocation whose final result carries no function-level error.       *)
(***************************************************************************)
C5_SuccessMeansAllProcessed ==
  ReportedSuccess =>
    /\ ~ReportedFailure
    /\ i = Len(pointerData)
    /\ \A b \in 1..Len(pointerData) : authCalls[b] >= 1 /\ locatorCalls[b] >= 1
    /\ UNION {BatchFiles(b) : b \in 1..Len(pointerData)} = RegenerationSet
    /\ \A f \in RegenerationSet : calls[f] # <<>> /\ Last(calls[f]) = "ok"

\* a run of two batches printed the summary, every asset invoked once
C5_Witness ==
  /\ ReportedSuccess
  /\ Len(pointerData) = 2
  /\ \A f \in RegenerationSet : calls[f] = <<"ok">>

(***************************************************************************)
(* C6: once an error has ended the work of batch k (a locator failure, a   *)
(* mismatch, a failed invocation), no credential fetch, locator call or    *)
(* invocation has been made for a batch after k, and none is made from     *)
(* then on.                                                                *)
(***************************************************************************)
C6_NothingAfterFailure ==
  /\ [](BatchFailed =>
          \A b \in (i + 1)..Len(pointerData) :
            /\ authCalls[b] = 0
            /\ locatorCalls[b] = 0
            /\ \A f \in BatchFiles(b) : calls[f] = <<>>)
  /\ [][BatchFailed =>
          /\ i' = i
          /\ authCalls' = authCalls
          /\ locatorCalls' = locatorCalls
          /\ calls' = calls]_vars

\* the first of two batches ended on a mismatch
C6_Witness ==
  /\ BatchFailed
  /\ i = 1
  /\ Len(pointerData) = 2
  /\ error[1] = "Mismatch"

(***************************************************************************)
(* C7: every credential fetch, locator call and invocation in flight       *)
(* belongs to the current batch; while the credential fetch or the locator *)
(* call of a batch is pending no invocation is in flight; and every        *)
(* invocation of every earlier batch has returned.                         *)
(***************************************************************************)
C7_BatchesNeverOverlap ==
  /\ \A r \in inflight : r.op \in {"auth", "post", "invoke"} => r.batch = i
  /\ pc \in {"auth", "post"} => Invoking = {}
  /\ \A b \in 1..(i - 1) : \A f \in BatchFiles(b) : calls[f] # <<>> /\ Last(calls[f]) = "ok"

\* the second batch has an invocation in flight after a first batch of
\* more assets than the limiter starts at once
C7_Witness ==
  /\ i = 2
  /\ pc = "dispatch"
  /\ Invoking # {}
  /\ Len(pointerData[1]) > lambdaConcurrency

(***************************************************************************)
(* C8: the credential source is invoked exactly once for every batch that  *)
(* is handed to the dispatch and not at all for the others; a locator call *)
(* of batch k is made only after that fetch and carries the value fetched  *)
(* for batch k; the header value changes only when a fetch returns.        *)
(***************************************************************************)
C8_CredentialPerBatch ==
  /\ [](\A b \in 1..MaxBatches : authCalls[b] = IF b <= i THEN 1 ELSE 0)
  /\ [](\A b \in 1..MaxBatches : locatorCalls[b] > 0 => b <= i /\ authCalls[b] = 1)
  /\ [](pc = "auth" => locatorCalls[i] = 0)
  /\ [](\A r \in inflight : r.op = "post" => r.auth = LFS_HEADERS)
  /\ [](pc \in {"post", "dispatch"} => LFS_HEADERS \in {Token(i), Stderr})
  /\ [][LFS_HEADERS' # LFS_HEADERS => pc = "auth" /\ pc' = "post"]_vars

\* the locator call of the second batch carries the second token
C8_Witness ==
  /\ i = 2
  /\ authCalls[1] = 1 /\ authCalls[2] = 1
  /\ \E r \in inflight : r.op = "post" /\ r.batch = 2 /\ r.auth = Token(2)

(***************************************************************************)
(* C9: at every moment the number of invocations in flight is at most      *)
(* lambdaConcurrency, and a payload waiting in a batch is eventually       *)
(* invoked unless an error ends the run.                                   *)
(***************************************************************************)
\* the k-th payload of the current batch waits for a free slot of the limiter
Queued(k) == pc = "dispatch" /\ k <= Len(tasks) /\ tasks[k].st = "pending"
\* the k-th payload has been handed to the compute unit
Invoked(k) == pc = "dispatch" /\ k <= Len(tasks) /\ tasks[k].st # "pending"

\* the first lambdaConcurrency payloads are invoked as the batch starts; the
\* others wait for a slot
C9_ConcurrencyCeiling ==
  /\ [](Running(tasks) <= lambdaConcurrency /\ Cardinality(Invoking) <= lambdaConcurrency)
  /\ [](\A k \in 1..lambdaConcurrency : ~Queued(k))
  /\ \A k \in (lambdaConcurrency + 1)..resolverChunkSize :
       Queued(k) ~> (Invoked(k) \/ error # <<>>)

\* the limiter is full, and the last payload of a batch larger than the limit
\* was started after an earlier one finished
C9_Witness ==
  /\ pc = "dispatch"
  /\ Len(tasks) > lambdaConcurrency
  /\ Cardinality(Invoking) = lambdaConcurrency
  /\ tasks[Len(tasks)].st = "first"

(***************************************************************************)
(* C10: the locator request lists the assets' objects in batch order; the  *)
(* k-th payload of a dispatched batch has keys built from the k-th asset's *)
(* fileName and a URL that contains the k-th asset's oid; a response that  *)
(* is a permutation of the assets' URLs moving a URL to an asset of a      *)
(* different oid is rejected by the stitch and never dispatched.           *)
(***************************************************************************)
Contains(url, oid) == indexOf(url, oid) # -1
Bijections(n) == {p \in [1..n -> 1..n] : \A a, b \in 1..n : a # b => p[a] # p[b]}
\* urls are the assets' URLs in another order, some asset getting the URL of
\* an asset with a different oid
Permuted(urls) ==
  /\ Len(urls) = Len(assets)
  /\ \E p \in Bijections(Len(assets)) :
       /\ \A k \in 1..Len(assets) : urls[k] = Href(assets[p[k]].opts.oid)
       /\ \E k \in 1..Len(assets) : assets[p[k]].opts.oid # assets[k].opts.oid

C10_UrlsByPosition ==
  /\ \A r \in inflight :
       r.op = "post" => r.objects = [k \in 1..Len(assets) |-> assets[k].opts]
  /\ pc = "post" =>
       \A response \in Responses(Len(assets)) :
         Permuted(response) => \E k \in 1..ZipLength(response) : ZipThrows(response, k)
  /\ pc = "dispatch" =>
       /\ Len(sourceUrls) = Len(assets)
       /\ \A k \in 1..Len(assets) :
            /\ Contains(sourceUrls[k].source.url, assets[k].opts.oid)
            /\ sourceUrls[k].destinations[1].key = createKey("print", assets[k].fileName)
            /\ sourceUrls[k].destinations[2].key = createKey("preview", assets[k].fileName)
       /\ ~Permuted([k \in 1..Len(sourceUrls) |-> sourceUrls[k].source.url])

\* a batch of three assets with three different oids is dispatched, each
\* payload with the URL of its own object
C10_Witness ==
  /\ pc = "dispatch"
  /\ Len(assets) = 3
  /\ \A k \in 1..3 : sourceUrls[k].source.url = Href(assets[k].opts.oid)
  /\ \A k, m \in 1..3 : k # m => assets[k].opts.oid # assets[m].opts.oid

(***************************************************************************)
(* Vocabulary of the copy-forward claims                                   *)
(***************************************************************************)
\* the fileNames of the candidate images
Candidates == {fileNameOf(files[k]) : k \in 1..Len(files)}
\* the candidates for which a copy of some variant found no source
Missing ==
  {f \in Candidates : \E mode \in {"preview", "print"} :
     \E k \in 1..Len(uncopiedFiles) : uncopiedFiles[k] = createKey(mode, f)}
\* the fileNames of the modified list
Modified ==
  IF modifiedImages = nullList THEN {}
  ELSE {fileNameOf(modifiedImages[k]) : k \in 1..Len(modifiedImages)}
\* copy-forward is over (line 312) and line 319 has built the regeneration list
Reconciled == pc = "pointers"
\* no derivative of the previous build was there: every copy of every
\* candidate found no source
ColdBuild == Reconciled /\ files # <<>> /\ Len(uncopiedFiles) = 2 * Len(files)
\* a copy failed with an error other than a missing source
CopyFailed == error # <<>> /\ error[1] = "CopyObject"

(***************************************************************************)
(* C11: on a cold build the regeneration list holds every candidate image  *)
(* once and nothing else.                                                  *)
(***************************************************************************)
C11_ColdBuildRegeneratesAll ==
  ColdBuild =>
    /\ Elems(filesToProcess) = Elems(files)
    /\ Len(filesToProcess) = Len(files)

\* a cold build whose candidate "blueprint" is not in the regeneration list
C11_Witness ==
  /\ ColdBuild
  /\ FileNames[2] \in Elems(files)
  /\ FileNames[2] \notin Elems(filesToProcess)

(***************************************************************************)
(* C12: a run whose modified list is empty and in which no copy failed     *)
(* ends by reporting success, without a failure, a locator call or an      *)
(* invocation.                                                             *)
(***************************************************************************)
C12_WarmBuildNothingToDo ==
  (Terminated /\ modifiedImages = nullList /\ uncopiedFiles = <<>> /\ ~CopyFailed) =>
    /\ ReportedSuccess
    /\ ~ReportedFailure
    /\ \A b \in 1..MaxBatches : locatorCalls[b] = 0
    /\ \A f \in FileIds : calls[f] = <<>>

\* the run with an empty modified list died at line 266, before any copy
C12_Witness ==
  /\ Terminated
  /\ modifiedImages = nullList
  /\ files # <<>>
  /\ failure = "unhandledRejection"
  /\ error = <<"TypeError", "modifiedImages.length">>
  /\ batches = <<>> /\ uncopiedFiles = <<>>

(***************************************************************************)
(* C13: when copy-forward is over, the regeneration list holds exactly the *)
(* candidates with a copy that found no source and the images of the       *)
(* modified list, each of them once.                                       *)
(***************************************************************************)
C13_RegenerationIsUnion ==
  Reconciled =>
    /\ RegenerationSet = Missing \cup Modified
    /\ Len(filesToProcess) = Cardinality(Missing \cup Modified)

\* the candidate "blueprint" found no source and is not in the regeneration
\* list, which holds the modified image and a path that is no file
C13_Witness ==
  /\ Reconciled
  /\ fileNameOf(FileNames[2]) \in Missing
  /\ FileNames[2] \notin Elems(filesToProcess)
  /\ Modified = {fileNameOf(FileNames[1])}
  /\ Len(filesToProcess) = 2
  /\ \E k \in 1..2 : ~IsFile(filesToProcess[k])

\* the run ended at line 341 on a rejected processPointer, and the path
\* that processPointer was given
PointerFailed == Terminated /\ failure = "setFailed" /\ error[1] = "processPointer"
FailedPath == SubSeq(error, 2, Len(error))

(***************************************************************************)
(* C14: after a copy failed with an error other than a missing source the  *)
(* run has reported failure and has parsed no pointer, called no locator   *)
(* and invoked nothing; a copy that found no source does not make the run  *)
(* fail: the run does not fail on the path collected for such a copy       *)
(* unless a pointer file is checked in at that path.                       *)
(***************************************************************************)
C14_CopyErrors ==
  /\ CopyFailed =>
       /\ Terminated /\ ReportedFailure /\ ~ReportedSuccess
       /\ pointerData = <<>> /\ i = 0
       /\ \A b \in 1..MaxBatches : authCalls[b] = 0 /\ locatorCalls[b] = 0
       /\ \A f \in FileIds : calls[f] = <<>>
  /\ PointerFailed /\ FailedPath \in Elems(deduplicatedUncopiedFiles) => IsFile(FailedPath)

\* "blueprint" had no previous derivative, and the run has failed reading
\* the path line 315 made of its keys, which is no file
C14_Witness ==
  /\ PointerFailed
  /\ Missing = {fileNameOf(FileNames[2])}
  /\ FailedPath \in Elems(deduplicatedUncopiedFiles)
  /\ ~IsFile(FailedPath)

\* the opts of an asset that came out of a malformed pointer
Malformed(opts) == opts.oid = undefined \/ opts.size = NaN
\* the POST requests to the locator that are in flight
Posts == {r \in inflight : r.op = "post"}

(***************************************************************************)
(* C15: a pointer file without line 2 or 3, without ':' on line 2, without *)
(* the blank on line 3 or with a size that is no number makes the run fail *)
(* as a malformed pointer: no asset with an absent content identifier or a *)
(* size that is no integer is batched or sent to the locator.              *)
(***************************************************************************)
C15_MalformedPointerRejected ==
  /\ \A b \in 1..Len(pointerData) : \A k \in 1..Len(pointerData[b]) :
       ~Malformed(pointerData[b][k].opts)
  /\ \A r \in Posts : \A k \in 1..Len(r.objects) : ~Malformed(r.objects[k])

\* the locator has been sent an asset whose size is NaN, and in another run
\* one whose content identifier is undefined
C15_Witness ==
  /\ pc = "post"
  /\ locatorCalls[i] >= 1
  /\ \E r \in Posts : \E k \in 1..Len(r.objects) :
       r.objects[k].size = NaN /\ r.objects[k].oid # undefined

\* the POST to the locator of the current batch failed for good on a network
\* error, which axios-retry retries: the budget is spent
BudgetExhausted == error = <<"axios", "networkError">>

(***************************************************************************)
(* C16: for each batch the POST to the locator is attempted at most        *)
(* retries + 1 = 4 times in total (the request and 3 retries); when the    *)
(* budget is exhausted the batch has failed, no invocation was made for    *)
(* any asset of that batch and the run reports failure.                    *)
(***************************************************************************)
C16_LocatorAttempts ==
  /\ \A b \in 1..MaxBatches : locatorCalls[b] <= retries + 1
  /\ BudgetExhausted =>
       /\ locatorCalls[i] = retries + 1
       /\ Terminated /\ ReportedFailure /\ ~ReportedSuccess
       /\ \A f \in BatchFiles(i) : calls[f] = <<>>

\* the second batch's POST failed on the network four times
C16_Witness ==
  /\ BudgetExhausted
  /\ i = 2
  /\ locatorCalls[i] = retries + 1
  /\ \E f \in BatchFiles(1) : calls[f] # <<>>

\* C16 as stated: the POST is attempted at most 3 times in total
C16_AtMostThreeAttempts ==
  /\ \A b \in 1..MaxBatches : locatorCalls[b] <= 3
  /\ BudgetExhausted =>
       /\ Terminated /\ ReportedFailure /\ ~ReportedSuccess
       /\ \A f \in BatchFiles(i) : calls[f] = <<>>

\* the scale s, a ratio, is n / d
SameRatio(s, n, d) == s[1] * d = s[2] * n
\* `${REPOSITORY}/${ASSET_VERSION}/${mode}/${fileName}` written out
KeyOf(mode, fileName) == <<"repo", "/", "current", "/", mode, "/">> \o fileName

(***************************************************************************)
(* C17: when a batch passed the stitch there is exactly one payload per    *)
(* asset, in batch order; it has exactly two destinations: the first is    *)
(* the print variant with scale 1 and key                                  *)
(* REPOSITORY/ASSET_VERSION/print/fileName, the second the preview variant *)
(* with scale PREVIEW_IMAGE_DPI / PRINT_IMAGE_DPI and key                  *)
(* REPOSITORY/ASSET_VERSION/preview/fileName; its source url is a URL of   *)
(* the locator that holds the asset's content identifier.                  *)
(***************************************************************************)
C17_PayloadShape ==
  pc = "dispatch" =>
    /\ Len(sourceUrls) = Len(assets)
    /\ \A k \in 1..Len(assets) :
         LET opts == sourceUrls[k]
         IN /\ DOMAIN opts = {"source", "destinations"}
            /\ Len(opts.destinations) = 2
            /\ opts.destinations[1].key = KeyOf("print", assets[k].fileName)
            /\ SameRatio(opts.destinations[1].scale, 1, 1)
            /\ opts.destinations[2].key = KeyOf("preview", assets[k].fileName)
            /\ SameRatio(opts.destinations[2].scale, PREVIEW_IMAGE_DPI, PRINT_IMAGE_DPI)
            /\ ~SameRatio(opts.destinations[2].scale, 1, 1)
            /\ opts.source.url \in Hrefs
            /\ ~Mismatch(opts.source.url, assets[k])

\* the second batch is being dispatched: payloads for its assets only
C17_Witness ==
  /\ pc = "dispatch"
  /\ i = 2
  /\ Len(sourceUrls) >= 1
  /\ sourceUrls[1].destinations[2].key
       = KeyOf("preview", fileNameOf(FileNames[resolverChunkSize + 1]))
  /\ sourceUrls[1].source.url = Href(assets[1].opts.oid)

\* the places (batch, position) of file f in pointerData
Places(f) ==
  {p \in (1..Len(pointerData)) \X (1..resolverChunkSize) :
     p[2] <= Len(pointerData[p[1]]) /\ pointerData[p[1]][p[2]].fileName = f}
\* the payloads of sourceUrls that are about file f
PayloadsFor(urls, f) ==
  {k \in 1..Len(urls) : urls[k].destinations[1].key = createKey("print", f)}
\* a step in which the stitch of a batch assigned its payloads
Stitched == pc = "post" /\ pc' = "dispatch"

(***************************************************************************)
(* C18: in a run that reports success every asset of the regeneration set  *)
(* is in exactly one batch, at one position, and the processed count that  *)
(* is reported is the number of assets of the regeneration set; the stitch *)
(* of a batch builds exactly one payload for each asset of the batch and   *)
(* none for any other asset, for assets nothing was sent for before, and   *)
(* a batch is stitched once.                                               *)
(***************************************************************************)
C18_NoAssetTwiceOrDropped ==
  /\ [](ReportedSuccess =>
          /\ \A f \in RegenerationSet : Cardinality(Places(f)) = 1
          /\ \A b \in 1..Len(pointerData) : BatchFiles(b) \subseteq RegenerationSet
          /\ processed = <<Cardinality(RegenerationSet)>>)
  /\ [][Stitched =>
          /\ \A f \in FileIds :
               Cardinality(PayloadsFor(sourceUrls', f))
                 = IF f \in BatchFiles(i) THEN 1 ELSE 0
          /\ Len(sourceUrls') = Cardinality(BatchFiles(i))
          /\ \A f \in BatchFiles(i) : calls[f] = <<>>]_vars
  /\ [][pc = "dispatch" => i' = i /\ sourceUrls' = sourceUrls]_vars

\* a run of two batches reported success with the count of its assets, each
\* of them invoked
C18_Witness ==
  /\ ReportedSuccess
  /\ Len(pointerData) = 2
  /\ Len(filesToProcess) = resolverChunkSize + 1
  /\ processed = <<resolverChunkSize + 1>>
  /\ \A f \in RegenerationSet : calls[f] # <<>>

\* the positions at which a response gives an asset a URL without its oid
Mismatches(response) ==
  {k \in 1..Min(Len(response), Len(assets)) : Mismatch(response[k], assets[k])}
\* the current batch failed with the mismatch error, and the asset it names
MismatchFailed == error # <<>> /\ error[1] = "Mismatch"
NamedAsset == SubSeq(error, 2, Len(error))

(***************************************************************************)
(* C19: when the URL at some position of a batch does not contain the      *)
(* content identifier of the asset at that position, the stitch throws the *)
(* mismatch error naming the asset of the first such position; the batch   *)
(* is dispatched only when no position mismatches; after the mismatch      *)
(* error the run has failed and nothing was invoked for any asset of the   *)
(* batch, the assets whose own URL matched included.                       *)
(***************************************************************************)
C19_MismatchAbortsBatch ==
  /\ pc = "post" =>
       \A response \in Responses(Len(assets)) :
         Mismatches(response) # {} =>
           LET first == CHOOSE k \in Mismatches(response) :
                          \A m \in Mismatches(response) : k <= m
           IN /\ ZipThrows(response, first)
              /\ \A k \in 1..(first - 1) : ~ZipThrows(response, k)
              /\ ZipError(response, first) = <<"Mismatch">> \o assets[first].fileName
  /\ pc = "dispatch" =>
       Mismatches([k \in 1..Len(sourceUrls) |-> sourceUrls[k].source.url]) = {}
  /\ MismatchFailed =>
       /\ Terminated /\ ReportedFailure /\ ~ReportedSuccess
       /\ NamedAsset \in BatchFiles(i)
       /\ \A f \in BatchFiles(i) : calls[f] = <<>>
       /\ inflight = {}

\* the second asset of a batch of three got the URL of another object, the
\* first asset's URL matched: nothing was invoked for either
C19_Witness ==
  /\ MismatchFailed
  /\ i = 1
  /\ Len(assets) = 3
  /\ NamedAsset = assets[2].fileName
  /\ calls[assets[1].fileName] = <<>>

\* the stitch of the current batch threw on a position without url or asset
StitchTypeError == error = <<"TypeError", "zipWith">>

(***************************************************************************)
(* C20: a locator response with fewer or more URLs than the batch has      *)
(* assets makes the stitch throw; the batch is dispatched only with one    *)
(* payload and one iteratee per asset; after the stitch threw on a missing *)
(* url or asset the run has failed and nothing was invoked for the batch.  *)
(***************************************************************************)
C20_CountMismatchAbortsBatch ==
  /\ pc = "post" =>
       \A response \in Responses(Len(assets)) :
         Len(response) # Len(assets) =>
           \E k \in 1..ZipLength(response) : ZipThrows(response, k)
  /\ pc = "dispatch" => Len(sourceUrls) = Len(assets) /\ Len(tasks) = Len(assets)
  /\ StitchTypeError =>
       /\ Terminated /\ ReportedFailure /\ ~ReportedSuccess
       /\ \A f \in BatchFiles(i) : calls[f] = <<>>
       /\ inflight = {}

\* the second batch got a response of another length, after the first batch
\* was dispatched
C20_Witness ==
  /\ StitchTypeError
  /\ i = 2
  /\ \A f \in BatchFiles(1) : calls[f] # <<>>
  /\ \A f \in BatchFiles(2) : calls[f] = <<>>

\* the batches put one after the other
RECURSIVE Join(_)
Join(bs) == IF bs = <<>> THEN <<>> ELSE Head(bs) \o Join(Tail(bs))
\* every batch but the last is full, the last holds 1..size elements
WellSized(bs, size) ==
  /\ \A b \in 1..(Len(bs) - 1) : Len(bs[b]) = size
  /\ bs # <<>> => Len(bs[Len(bs)]) \in 1..size
\* the fileNames of the regeneration list, in the order of line 319
RegenerationNames == [k \in 1..Len(filesToProcess) |-> fileNameOf(filesToProcess[k])]

(***************************************************************************)
(* C21: the regeneration list is split into batches that partition it in   *)
(* order: the batches put one after the other give the list back, every    *)
(* batch but the last holds exactly resolverChunkSize assets, the last one *)
(* between 1 and resolverChunkSize, and the empty list gives no batch;     *)
(* while there is no batch, no credential was fetched and no locator       *)
(* called.                                                                 *)
(***************************************************************************)
C21_BatchesPartitionInOrder ==
  /\ pc = "main" =>
     \A n \in 0..MaxAssets :
       LET list == SubSeq(FileNames, 1, n)
           bs == chunk(list, resolverChunkSize)
       IN /\ Join(bs) = list
          /\ WellSized(bs, resolverChunkSize)
          /\ (n = 0 => bs = <<>>)
  /\ pointerData # <<>> =>
       /\ Join([b \in 1..Len(pointerData) |->
                  [k \in 1..Len(pointerData[b]) |-> pointerData[b][k].fileName]])
            = RegenerationNames
       /\ WellSized(pointerData, resolverChunkSize)
  /\ pointerData = <<>> =>
       \A b \in 1..MaxBatches : authCalls[b] = 0 /\ locatorCalls[b] = 0

\* a list of resolverChunkSize + 1 assets was split into a full batch and
\* a batch of one, and the second batch is at the locator
C21_Witness ==
  /\ Len(filesToProcess) = resolverChunkSize + 1
  /\ Len(pointerData) = 2
  /\ Len(pointerData[1]) = resolverChunkSize
  /\ Len(pointerData[2]) = 1
  /\ locatorCalls[2] = 1

\* lambda.send of file f rejected: the invoke call failed at transport level
TransportFailed(f) == \E k \in 1..Len(calls[f]) : calls[f][k] = "rejected"

(***************************************************************************)
(* C22: a second invocation of an asset is made only after a first result  *)
(* that carries a function-level error; an invocation that fails at        *)
(* transport level is the asset's last one (no invocation follows it, and  *)
(* a first invocation that fails so is the only one), and the run has      *)
(* failed on that asset.                                                   *)
(***************************************************************************)
C22_RetryOnFunctionErrorOnly ==
  \A f \in FileIds :
    /\ Len(calls[f]) >= 2 => calls[f][1] = "FunctionError"
    /\ (calls[f] # <<>> /\ calls[f][1] = "rejected") => Len(calls[f]) = 1
    /\ TransportFailed(f) =>
         /\ Last(calls[f]) = "rejected"
         /\ Terminated /\ ReportedFailure /\ ~ReportedSuccess
         /\ error = <<"lambda.send">> \o f
         /\ Invoking = {}

\* the first invocation of an asset of the second batch was rejected, after
\* an asset of the first batch was retried on a function-level error
C22_Witness ==
  /\ i = 2
  /\ \E f \in BatchFiles(2) : calls[f] = <<"rejected">>
  /\ \E g \in BatchFiles(1) : calls[g] = <<"FunctionError", "ok">>
  /\ Terminated

\* the payloads of the current batch whose iteratee was not started
Pending(ts) == {k \in 1..Len(ts) : ts[k].st = "pending"}

(***************************************************************************)
(* C23: when an asset of a batch fails, no payload of the batch that was   *)
(* not started is started by that step or afterwards: the step that        *)
(* records the error leaves every pending payload pending and sends        *)
(* nothing, and from then on the run has ended and no payload changes.     *)
(***************************************************************************)
C23_NoStartAfterFailure ==
  /\ [][(pc = "dispatch" /\ error' # <<>>) =>
          /\ Pending(tasks') = Pending(tasks)
          /\ \A k \in Pending(tasks) : calls'[FileOf(k)] = <<>>
          /\ Invoking' = {}]_vars
  /\ [][error # <<>> => tasks' = tasks /\ calls' = calls]_vars
  /\ [](error # <<>> => Terminated /\ Invoking = {})

\* a batch larger than the limit failed on its first asset while its last
\* payload was waiting for a slot
C23_Witness ==
  /\ Terminated
  /\ Len(tasks) > lambdaConcurrency
  /\ error = <<"FunctionError">> \o assets[1].fileName
  /\ Len(tasks) \in Pending(tasks)
  /\ calls[assets[Len(tasks)].fileName] = <<>>

\* the copy commands sent from the previous build's key of file f, variant
\* mode, to the current build's key
CopiesOf(mode, f) ==
  {k \in 1..Len(copies) :
     copies[k] = [CopySource |-> PreviousKey(mode, f), Key |-> createKey(mode, f)]}
\* main is past copy-forward, or the run ended without a copy error, before
\* any pointer was parsed
CopyForwardOver == Reconciled \/ (Terminated /\ ~CopyFailed /\ pointerData = <<>>)

(***************************************************************************)
(* C24: for every candidate exactly two copies are issued, one for the     *)
(* preview and one for the print variant, each from the previous build's   *)
(* key to the key that differs by the current build version only; the      *)
(* number of copies of a run is twice the number of candidates, whatever   *)
(* the modified list is.                                                   *)
(***************************************************************************)
C24_TwoCopiesPerCandidate ==
  CopyForwardOver =>
    /\ Len(copies) = 2 * Len(files)
    /\ \A f \in Candidates : \A mode \in {"preview", "print"} :
         Cardinality(CopiesOf(mode, f)) = 1

\* candidates, an empty modified list, and a run that ended at line 266
\* without a copy
C24_Witness ==
  /\ Terminated
  /\ Len(files) = MaxFiles
  /\ modifiedImages = nullList
  /\ copies = <<>>
  /\ failure = "unhandledRejection"

\* the positions of asset f in the regeneration list
Entries(f) == {k \in 1..Len(filesToProcess) : fileNameOf(filesToProcess[k]) = f}

(***************************************************************************)
(* C25: a candidate whose copy-forward found no source for the print       *)
(* variant only, for the preview variant only, or for both, is in the      *)
(* regeneration list exactly once; a candidate whose two copies succeeded  *)
(* and that is not in the modified list is not in it.                      *)
(***************************************************************************)
C25_MissingEntersOnce ==
  Reconciled =>
    \A f \in Candidates :
      /\ f \in Missing => Cardinality(Entries(f)) = 1
      /\ (f \notin Missing /\ f \notin Modified) => Entries(f) = {}

\* only the print variant of "blueprint" had no source, and the image is
\* not in the regeneration list
C25_Witness ==
  /\ Reconciled
  /\ uncopiedFiles = <<createKey("print", fileNameOf(FileNames[2]))>>
  /\ Entries(fileNameOf(FileNames[2])) = {}
  /\ Len(filesToProcess) = 2

\* line 315 on one uncopied key: the path that is put in the regeneration list
pathOfKey(key) ==
  <<".", "/", "static-assets">> \o splitSecond(key, {<<"preview">>, <<"print">>})
\* the variants of a derivative
Modes == {"preview", "print"}

(***************************************************************************)
(* C26: for every candidate and variant the destination key of the copy    *)
(* is the key the dispatch gives the compute unit for that asset and       *)
(* variant, REPOSITORY/ASSET_VERSION/variant/fileName; every copy that was *)
(* sent has such a key; and the path rebuilt from an uncopied key is the   *)
(* path of the candidate the key belongs to.                               *)
(***************************************************************************)
C26_CopyAndDispatchAgree ==
  /\ \A j \in 1..Len(files) : \A mode \in Modes :
       destKey(PreviousKey(mode, fileNameOf(files[j])))
         = InvocationOptions(<<>>, [fileName |-> fileNameOf(files[j])])
             .destinations[IF mode = "print" THEN 1 ELSE 2].key
  /\ \A k \in 1..Len(copies) :
       \E f \in Candidates : \E mode \in Modes : copies[k].Key = KeyOf(mode, f)
  /\ \A k \in 1..Len(uncopiedFiles) : \A j \in 1..Len(files) : \A mode \in Modes :
       uncopiedFiles[k] = createKey(mode, fileNameOf(files[j]))
         => pathOfKey(uncopiedFiles[k]) = files[j]

\* the preview key of "blueprint" was collected, and the path rebuilt from
\* it is not the candidate's
C26_Witness ==
  /\ pc = "copy"
  /\ \E k \in 1..Len(uncopiedFiles) :
       /\ uncopiedFiles[k] = createKey("preview", fileNameOf(FileNames[2]))
       /\ pathOfKey(uncopiedFiles[k]) # FileNames[2]
       /\ ~IsFile(pathOfKey(uncopiedFiles[k]))

\* the copies that were sent and are not answered
Copying == {r \in inflight : r.op = "copy"}
\* a credential was fetched, the locator called or an asset invoked
DispatchStarted ==
  \/ \E b \in 1..MaxBatches : authCalls[b] > 0 \/ locatorCalls[b] > 0
  \/ \E f \in FileIds : calls[f] # <<>>

(***************************************************************************)
(* C27: every copy of the run is answered before the first credential      *)
(* fetch, locator call or invocation: once one of these was made no copy   *)
(* is pending or waiting to be sent, none is sent afterwards, and while    *)
(* main is in copy-forward none of them was made.                          *)
(***************************************************************************)
C27_CopyBeforeDispatch ==
  /\ [](DispatchStarted => Copying = {} /\ copying = {} /\ batches = <<>>)
  /\ []((pc \in {"main", "copy", "pointers"} \/ Copying # {}) => ~DispatchStarted)
  /\ [][DispatchStarted' => Len(copies') <= Len(copies)]_vars

\* copy-forward is over with both copies of a modified image made and
\* answered, and the image is about to be regenerated
C27_Witness ==
  /\ Reconciled
  /\ Len(copies) = 2
  /\ Copying = {}
  /\ uncopiedFiles = <<>>
  /\ filesToProcess = <<FileNames[1]>>
  /\ Modified = Candidates
  /\ ~DispatchStarted

\* what the fixed answers w determine: the regeneration set ...
ExpectedSet(w) ==
  {<<".", "/", "static-assets">> \o splitSecond(destKey(key), {<<"preview">>, <<"print">>}) :
     key \in {x \in DOMAIN w.copy : w.copy[x] = "NoSuchKey"}}
    \cup (IF w.modified = nullList THEN {} ELSE Elems(w.modified))
\* ... and whether the run fails: on the empty modified list, on a copy
\* error, on a path that is no file, or on an asset whose invocation is
\* rejected or whose two results carry a function-level error
ExpectedFailure(w) ==
  \/ w.modified = nullList
  \/ \E key \in DOMAIN w.copy : w.copy[key] = "AccessDenied"
  \/ \E x \in ExpectedSet(w) : ~IsFile(x)
  \/ \E x \in ExpectedSet(w) :
       LET answer == w.invoke[fileNameOf(x)]
       IN answer[1] = "rejected" \/ (answer[1] = "FunctionError" /\ answer[2] # "ok")

(***************************************************************************)
(* C28: under fixed answers of the services the regeneration set, as a     *)
(* set, and the outcome of the run are the same whatever the order in      *)
(* which the pending copies and the pending invocations are answered:      *)
(* both are functions of the answers alone.                                *)
(***************************************************************************)
C28_OrderDoesNotMatter ==
  /\ Reconciled => Elems(filesToProcess) = ExpectedSet(world)
  /\ Terminated =>
       /\ ReportedFailure <=> ExpectedFailure(world)
       /\ ReportedSuccess <=> ~ExpectedFailure(world)

\* both copies of the first image found no source, in whichever order they
\* were answered, every image was modified, an asset was retried, and the run
\* reported success
C28_Witness ==
  /\ ReportedSuccess
  /\ Len(world.files) = 1
  /\ \E f \in DOMAIN world.invoke : world.invoke[f] = <<"FunctionError", "ok">>
  /\ world.copy[PreviousKey("print", fileNameOf(FileNames[1]))] = "NoSuchKey"
  /\ world.copy[PreviousKey("preview", fileNameOf(FileNames[1]))] = "NoSuchKey"
  /\ Len(filesToProcess) = MaxAssets
  /\ filesToProcess[1] = FileNames[1]
  /\ \E f \in FileIds : calls[f] = <<"FunctionError", "ok">>

====
